---- MODULE Spec2Model ----
(***************************************************************************)
(* The testbed's foreground controller (class Testbed), the channel to its *)
(* web worker, the worker's replies and the browser's timers.              *)
(*                                                                         *)
(* Every handler of the foreground runs to completion (one JavaScript      *)
(* task), so each is one action.  A handler is written as the composition  *)
(* of the methods it calls; the methods are operators from a foreground    *)
(* state (a record, see Fg) to a foreground state.  The field `calls` of   *)
(* that record is the sequence of calls the running handler has made on    *)
(* its collaborators (graphics, gui, worker, setTimeout, the demo          *)
(* builder), in program order.                                             *)
(*                                                                         *)
(* Time.  The code reads the clock only in `now - this.lastMessageTime`    *)
(* (compared with world.timestep * 1000, and used as a timer delay when    *)
(* smaller).  The model keeps that difference, sinceLastMessage, counted   *)
(* in clock units and saturated at TimestepMs, and for every pending timer *)
(* the time left before it may fire.                                       *)
(***************************************************************************)
EXTENDS Integers, Sequences, FiniteSets, TLC

\* ------------------------------------------------------------------ bounds
MaxToken == 2       \* setWorld is not called once demoToken reaches it
TimestepMs == 2     \* world.timestep * 1000, rounded up, in clock units
CubesNum == 1       \* dynamic bodies built by the cubes demo
KevaNum == 2        \* dynamic bodies built by the keva tower demo
MaxIter == 2        \* largest value the user drags an iteration slider to
MaxInputLen == 2    \* longest list of bodies or colliders given to the encoder
MaxBackendToken == 3    \* SelectBackend is not taken once demoToken reaches it

\* --------------------------------------------------------------- constants
PHYSX_BACKEND_NAME == "physx.release.wasm"

\* The backends the user is offered.  The code tells "rapier" and
\* PHYSX_BACKEND_NAME from the rest; "ammo.js" stands for the rest
\* ("ammo.js", "ammo.wasm", "cannon.js", "oimo.js"), which take the same
\* branches everywhere.
Backends == {"rapier", "ammo.js", PHYSX_BACKEND_NAME}

Demos == {"cubes", "keva tower"}

\* The values the user gives the sliders of the solver iterations.
IterValues == 1..MaxIter

VARIABLES
    backend, prevBackend, demo,         \* SimulationParameters
    numVelocityIter, numPositionIter,
    running, stepping,
    demoToken, prevDemo, world,         \* Testbed
    sinceLastMessage,                   \* now - Testbed.lastMessageTime
    coll2gfx,                           \* Graphics: handle -> what is drawn
    timing, debugInfos,                 \* Gui: what the panels display
    velIterEnabled, posIterEnabled,     \* Gui: pointerEvents of the sliders
    timers,                             \* pending setTimeout callbacks
    calls,                              \* collaborator calls of the last handler
    toWorker,                           \* messages posted, not yet processed
    toMain,                             \* results posted, not yet handled
    wk,                                 \* the worker's world
    handler,                            \* see Recorded
    firstPosted,                        \* type of the first message ever posted
    sentTokens,                         \* tokens of the setWorld messages posted
    advancesSinceStep                   \* see StepEpisode

fgVars == <<backend, prevBackend, demo, numVelocityIter, numPositionIter,
            running, stepping, demoToken, prevDemo, world, sinceLastMessage,
            coll2gfx, timing, debugInfos, velIterEnabled, posIterEnabled,
            timers>>

vars == <<fgVars, calls, handler, toWorker, toMain, wk, firstPosted,
          sentTokens, advancesSinceStep>>

NoWorld == [demo |-> "none"]
NoDemo == "none"
EmptyMap == [h \in {} |-> 0]

\* The foreground state as one record, the value the methods work on.
Fg ==
    [backend |-> backend, prevBackend |-> prevBackend, demo |-> demo,
     numVelocityIter |-> numVelocityIter, numPositionIter |-> numPositionIter,
     running |-> running, stepping |-> stepping,
     demoToken |-> demoToken, prevDemo |-> prevDemo, world |-> world,
     sinceLastMessage |-> sinceLastMessage,
     coll2gfx |-> coll2gfx, timing |-> timing, debugInfos |-> debugInfos,
     velIterEnabled |-> velIterEnabled, posIterEnabled |-> posIterEnabled,
     timers |-> timers, inhibitLookAt |-> FALSE, calls |-> <<>>]

Call(s, c) == [s EXCEPT !.calls = Append(@, c)]

Min(a, b) == IF a <= b THEN a ELSE b

\* ------------------------------------------------------------ SimulationParameters
SimulationParameters ==
    [backend |-> "rapier", prevBackend |-> "rapier", demo |-> "cubes",
     numVelocityIter |-> 4, numPositionIter |-> 1,
     running |-> TRUE, stepping |-> FALSE]

\* ------------------------------------------------------------ demo builders
\* What initWorld hands to testbed.setWorld: a ground body and n dynamic
\* bodies, one cuboid collider each, no joints.
BuiltBodies(n) ==
    [i \in 1..(n + 1) |->
        [handle |-> i - 1, type |-> IF i = 1 THEN "static" ELSE "dynamic"]]

BuiltColliders(n) ==
    [i \in 1..(n + 1) |->
        [handle |-> i - 1, parentHandle |-> i - 1, type |-> "Cuboid"]]

NewWorld(d) ==
    [demo |-> d, gravity |-> <<0, -981, 0>>,
     maxVelocityIterations |-> 4, maxPositionIterations |-> 1,
     timestepMs |-> TimestepMs]

DemoSize(d) == IF d = "cubes" THEN CubesNum ELSE KevaNum

\* ------------------------------------------------------------ extractWorldDescription
\* extractWorldDescription that leaves the static bodies out.
extractWorldDescription_DynamicOnly(w, bodies, colliders, joints) ==
    [world |-> [maxVelocityIterations |-> w.maxVelocityIterations,
                maxPositionIterations |-> w.maxPositionIterations],
     bodies |-> SelectSeq([i \in DOMAIN bodies |->
                             [handle |-> bodies[i].handle,
                              type |-> bodies[i].type]],
                          LAMBDA b : b.type # "static"),
     colliders |-> [i \in DOMAIN colliders |->
                    [handle |-> colliders[i].handle,
                     parentHandle |-> colliders[i].parentHandle,
                     type |-> colliders[i].type]],
     joints |-> [i \in DOMAIN joints |->
                    [handle1 |-> joints[i].handle1,
                     handle2 |-> joints[i].handle2]]]

extractWorldDescription(w, bodies, colliders, joints) ==
    [world |-> [maxVelocityIterations |-> w.maxVelocityIterations,
                maxPositionIterations |-> w.maxPositionIterations],
     bodies |-> [i \in DOMAIN bodies |->
                    [handle |-> bodies[i].handle, type |-> bodies[i].type]],
     colliders |-> [i \in DOMAIN colliders |->
                    [handle |-> colliders[i].handle,
                     parentHandle |-> colliders[i].parentHandle,
                     type |-> colliders[i].type]],
     joints |-> [i \in DOMAIN joints |->
                    [handle1 |-> joints[i].handle1,
                     handle2 |-> joints[i].handle2]]]

\* ------------------------------------------------------------ collaborators
\* worker.postMessage: `at` is now - lastMessageTime when the message leaves.
postMessage(s, m) ==
    Call(s, [op |-> "postMessage", msg |-> m, at |-> s.sinceLastMessage])

\* setTimeout(() => { postMessage(m); lastMessageTime = now }, delay);
\* `at` is now - lastMessageTime when the timer is set.
setTimeout(s, m, delay) ==
    [Call(s, [op |-> "setTimeout", msg |-> m, delay |-> delay,
              at |-> s.sinceLastMessage])
        EXCEPT !.timers = Append(@, [left |-> delay, msg |-> m])]

\* Graphics.reset
GraphicsReset(s) ==
    [Call(s, [op |-> "graphics.reset"]) EXCEPT !.coll2gfx = EmptyMap]

\* Graphics.addCollider: the collider is drawn where the demo put it (0).
addCollider(s, coll) ==
    [Call(s, [op |-> "graphics.addCollider", handle |-> coll.handle])
        EXCEPT !.coll2gfx =
            [h \in DOMAIN @ \cup {coll.handle} |->
                IF h = coll.handle THEN 0 ELSE @[h]]]

RECURSIVE addColliders(_, _, _)
addColliders(s, colliders, i) ==
    IF i > Len(colliders) THEN s
    ELSE addColliders(addCollider(s, colliders[i]), colliders, i + 1)

\* Graphics.updatePositions: only the handles that have a shape are moved.
updatePositions(s, positions) ==
    [Call(s, [op |-> "graphics.updatePositions"])
        EXCEPT !.coll2gfx =
            [h \in DOMAIN @ |->
                IF \E i \in DOMAIN positions : positions[i].handle = h
                THEN LET j == CHOOSE k \in DOMAIN positions :
                                  positions[k].handle = h
                     IN positions[j].translation
                ELSE @[h]]]

setTiming(s, stepTime) ==
    [Call(s, [op |-> "gui.setTiming"]) EXCEPT !.timing = stepTime]

setDebugInfos(s, data) ==
    [Call(s, [op |-> "gui.setDebugInfos"]) EXCEPT !.debugInfos = data.token]

resetTiming(s) ==
    [Call(s, [op |-> "gui.resetTiming"]) EXCEPT !.timing = 0]

\* ------------------------------------------------------------ Testbed.stepMessage
\* stepMessage without the reset of the running and stepping flags.
stepMessage_KeepsFlags(s) ==
    [res |-> [type |-> "step",
              maxVelocityIterations |-> s.numVelocityIter,
              maxPositionIterations |-> s.numPositionIter,
              running |-> (s.running \/ s.stepping)],
     s |-> s]

\* stepMessage whose message always asks for an advance.
stepMessage_AlwaysRunning(s) ==
    LET res == [type |-> "step",
                maxVelocityIterations |-> s.numVelocityIter,
                maxPositionIterations |-> s.numPositionIter,
                running |-> TRUE]
    IN [res |-> res,
        s |-> IF s.stepping
              THEN [s EXCEPT !.running = FALSE, !.stepping = FALSE]
              ELSE s]

\* stepMessage that uses up the step request and leaves "running" alone.
stepMessage_ClearsSteppingOnly(s) ==
    LET res == [type |-> "step",
                maxVelocityIterations |-> s.numVelocityIter,
                maxPositionIterations |-> s.numPositionIter,
                running |-> (s.running \/ s.stepping)]
    IN [res |-> res,
        s |-> IF s.stepping THEN [s EXCEPT !.stepping = FALSE] ELSE s]

stepMessage(s) ==
    LET res == [type |-> "step",
                maxVelocityIterations |-> s.numVelocityIter,
                maxPositionIterations |-> s.numPositionIter,
                running |-> (s.running \/ s.stepping)]
    IN [res |-> res,
        s |-> IF s.stepping
              THEN [s EXCEPT !.running = FALSE, !.stepping = FALSE]
              ELSE s]

\* ------------------------------------------------------------ Testbed.setWorld
\* setWorld with the token left as it was.
setWorld_NoIncrement(s, w, bodies, colliders, joints) ==
    LET s1 == [s EXCEPT !.world =
                   [w EXCEPT !.maxVelocityIterations = s.numVelocityIter,
                             !.maxPositionIterations = s.numPositionIter]]
        s2 == resetTiming(s1)
        s3 == addColliders(s2, colliders, 1)
        desc == extractWorldDescription(s3.world, bodies, colliders, joints)
        message == [type |-> "setWorld", backend |-> s3.backend,
                    token |-> s3.demoToken, world |-> desc.world,
                    bodies |-> desc.bodies, colliders |-> desc.colliders,
                    joints |-> desc.joints]
        s4 == postMessage(s3, message)
        sm == stepMessage(s4)
        s5 == postMessage(sm.s, sm.res)
    IN [s5 EXCEPT !.sinceLastMessage = 0]

\* setWorld with its two postMessage calls in the other order.
setWorld_StepFirst(s, w, bodies, colliders, joints) ==
    LET s1 == [s EXCEPT !.world =
                   [w EXCEPT !.maxVelocityIterations = s.numVelocityIter,
                             !.maxPositionIterations = s.numPositionIter],
                        !.demoToken = @ + 1]
        s2 == resetTiming(s1)
        s3 == addColliders(s2, colliders, 1)
        desc == extractWorldDescription(s3.world, bodies, colliders, joints)
        message == [type |-> "setWorld", backend |-> s3.backend,
                    token |-> s3.demoToken, world |-> desc.world,
                    bodies |-> desc.bodies, colliders |-> desc.colliders,
                    joints |-> desc.joints]
        sm == stepMessage(s3)
        s4 == postMessage(sm.s, sm.res)
        s5 == postMessage(s4, message)
    IN [s5 EXCEPT !.sinceLastMessage = 0]

\* setWorld that ticks "running" before it builds its first step message.
setWorld_ForcesRunning(s, w, bodies, colliders, joints) ==
    LET s1 == [s EXCEPT !.world =
                   [w EXCEPT !.maxVelocityIterations = s.numVelocityIter,
                             !.maxPositionIterations = s.numPositionIter],
                        !.demoToken = @ + 1,
                        !.running = TRUE]
        s2 == resetTiming(s1)
        s3 == addColliders(s2, colliders, 1)
        desc == extractWorldDescription(s3.world, bodies, colliders, joints)
        message == [type |-> "setWorld", backend |-> s3.backend,
                    token |-> s3.demoToken, world |-> desc.world,
                    bodies |-> desc.bodies, colliders |-> desc.colliders,
                    joints |-> desc.joints]
        s4 == postMessage(s3, message)
        sm == stepMessage(s4)
        s5 == postMessage(sm.s, sm.res)
    IN [s5 EXCEPT !.sinceLastMessage = 0]

\* setWorld that posts the setWorld message only.
setWorld_NoFirstStep(s, w, bodies, colliders, joints) ==
    LET s1 == [s EXCEPT !.world =
                   [w EXCEPT !.maxVelocityIterations = s.numVelocityIter,
                             !.maxPositionIterations = s.numPositionIter],
                        !.demoToken = @ + 1]
        s2 == resetTiming(s1)
        s3 == addColliders(s2, colliders, 1)
        desc == extractWorldDescription(s3.world, bodies, colliders, joints)
        message == [type |-> "setWorld", backend |-> s3.backend,
                    token |-> s3.demoToken, world |-> desc.world,
                    bodies |-> desc.bodies, colliders |-> desc.colliders,
                    joints |-> desc.joints]
        s4 == postMessage(s3, message)
    IN [s4 EXCEPT !.sinceLastMessage = 0]

\* setWorld that leaves lastMessageTime as it was.
setWorld_KeepsClock(s, w, bodies, colliders, joints) ==
    LET s1 == [s EXCEPT !.world =
                   [w EXCEPT !.maxVelocityIterations = s.numVelocityIter,
                             !.maxPositionIterations = s.numPositionIter],
                        !.demoToken = @ + 1]
        s2 == resetTiming(s1)
        s3 == addColliders(s2, colliders, 1)
        desc == extractWorldDescription(s3.world, bodies, colliders, joints)
        message == [type |-> "setWorld", backend |-> s3.backend,
                    token |-> s3.demoToken, world |-> desc.world,
                    bodies |-> desc.bodies, colliders |-> desc.colliders,
                    joints |-> desc.joints]
        s4 == postMessage(s3, message)
        sm == stepMessage(s4)
    IN postMessage(sm.s, sm.res)

setWorld(s, w, bodies, colliders, joints) ==
    LET s1 == [s EXCEPT !.world =
                   [w EXCEPT !.maxVelocityIterations = s.numVelocityIter,
                             !.maxPositionIterations = s.numPositionIter],
                        !.demoToken = @ + 1]
        s2 == resetTiming(s1)
        s3 == addColliders(s2, colliders, 1)
        desc == extractWorldDescription(s3.world, bodies, colliders, joints)
        message == [type |-> "setWorld", backend |-> s3.backend,
                    token |-> s3.demoToken, world |-> desc.world,
                    bodies |-> desc.bodies, colliders |-> desc.colliders,
                    joints |-> desc.joints]
        s4 == postMessage(s3, message)
        sm == stepMessage(s4)
        s5 == postMessage(sm.s, sm.res)
    IN [s5 EXCEPT !.sinceLastMessage = 0]

\* ------------------------------------------------------------ Testbed.lookAt
lookAt(s) ==
    [(IF ~s.inhibitLookAt THEN Call(s, [op |-> "graphics.lookAt"]) ELSE s)
        EXCEPT !.inhibitLookAt = FALSE]

\* ------------------------------------------------------------ demos/*.js initWorld
initWorld(s, d) ==
    lookAt(setWorld(s, NewWorld(d), BuiltBodies(DemoSize(d)),
                    BuiltColliders(DemoSize(d)), <<>>))

\* ------------------------------------------------------------ Testbed.switchToDemo
\* switchToDemo with graphics.reset() called after the builder.
switchToDemo_ResetLast(s, d) ==
    LET s1 == [s EXCEPT !.inhibitLookAt = (d = s.prevDemo) \/ @,
                        !.prevDemo = d]
        s3 == IF s1.backend # PHYSX_BACKEND_NAME
                 /\ s1.prevBackend = PHYSX_BACKEND_NAME
              THEN [s1 EXCEPT !.numVelocityIter = 4, !.numPositionIter = 1,
                              !.velIterEnabled = TRUE, !.posIterEnabled = TRUE]
              ELSE s1
        s4 == IF s3.backend = PHYSX_BACKEND_NAME
              THEN [s3 EXCEPT !.numVelocityIter = 1, !.numPositionIter = 4,
                              !.velIterEnabled = FALSE]
              ELSE s3
        s5 == [s4 EXCEPT !.posIterEnabled = (s4.backend = "rapier")]
        s6 == [s5 EXCEPT !.prevBackend = s5.backend]
    IN GraphicsReset(initWorld(Call(s6, [op |-> "builder", demo |-> d]), d))

\* switchToDemo without the reset of the iteration counts when PhysX is left.
switchToDemo_NoResetOnLeave(s, d) ==
    LET s1 == [s EXCEPT !.inhibitLookAt = (d = s.prevDemo) \/ @,
                        !.prevDemo = d]
        s2 == GraphicsReset(s1)
        s3 == IF s2.backend # PHYSX_BACKEND_NAME
                 /\ s2.prevBackend = PHYSX_BACKEND_NAME
              THEN [s2 EXCEPT !.velIterEnabled = TRUE, !.posIterEnabled = TRUE]
              ELSE s2
        s4 == IF s3.backend = PHYSX_BACKEND_NAME
              THEN [s3 EXCEPT !.numVelocityIter = 1, !.numPositionIter = 4,
                              !.velIterEnabled = FALSE]
              ELSE s3
        s5 == [s4 EXCEPT !.posIterEnabled = (s4.backend = "rapier")]
        s6 == [s5 EXCEPT !.prevBackend = s5.backend]
    IN initWorld(Call(s6, [op |-> "builder", demo |-> d]), d)

switchToDemo(s, d) ==
    LET s1 == [s EXCEPT !.inhibitLookAt = (d = s.prevDemo) \/ @,
                        !.prevDemo = d]
        s2 == GraphicsReset(s1)
        s3 == IF s2.backend # PHYSX_BACKEND_NAME
                 /\ s2.prevBackend = PHYSX_BACKEND_NAME
              THEN [s2 EXCEPT !.numVelocityIter = 4, !.numPositionIter = 1,
                              !.velIterEnabled = TRUE, !.posIterEnabled = TRUE]
              ELSE s2
        s4 == IF s3.backend = PHYSX_BACKEND_NAME
              THEN [s3 EXCEPT !.numVelocityIter = 1, !.numPositionIter = 4,
                              !.velIterEnabled = FALSE]
              ELSE s3
        s5 == [s4 EXCEPT !.posIterEnabled = (s4.backend = "rapier")]
        s6 == [s5 EXCEPT !.prevBackend = s5.backend]
    IN initWorld(Call(s6, [op |-> "builder", demo |-> d]), d)

\* ------------------------------------------------------------ Testbed.switchToBackend
switchToBackend(s, b) == switchToDemo(s, s.demo)

\* ------------------------------------------------------------ worker.onmessage
\* onmessage that goes on to the pacing after a result of another token.
onmessage_StaleProceeds(s, msg) ==
    LET s1 == IF "data" \in DOMAIN msg /\ msg.data.token = s.demoToken
              THEN setDebugInfos(
                       setTiming(updatePositions(s, msg.data.positions),
                                 msg.data.stepTime),
                       msg.data)
              ELSE s
        sm == stepMessage(s1)
        s2 == sm.s
    IN IF s2.sinceLastMessage >= s2.world.timestepMs
       THEN [postMessage(s2, sm.res) EXCEPT !.sinceLastMessage = 0]
       ELSE setTimeout(s2, sm.res, s2.sinceLastMessage)

\* onmessage without the comparison of the result's token with demoToken.
onmessage_NoTokenCheck(s, msg) ==
    LET s1 == IF "data" \in DOMAIN msg
              THEN setDebugInfos(
                       setTiming(updatePositions(s, msg.data.positions),
                                 msg.data.stepTime),
                       msg.data)
              ELSE s
        sm == stepMessage(s1)
        s2 == sm.s
    IN IF s2.sinceLastMessage >= s2.world.timestepMs
       THEN [postMessage(s2, sm.res) EXCEPT !.sinceLastMessage = 0]
       ELSE setTimeout(s2, sm.res, s2.sinceLastMessage)

\* onmessage that sends nothing when the result comes too early.
onmessage_DropsEarly(s, msg) ==
    IF "data" \in DOMAIN msg /\ msg.data.token # s.demoToken
    THEN s
    ELSE LET s1 == IF "data" \in DOMAIN msg /\ msg.data.token = s.demoToken
                   THEN setDebugInfos(
                            setTiming(updatePositions(s, msg.data.positions),
                                      msg.data.stepTime),
                            msg.data)
                   ELSE s
             sm == stepMessage(s1)
             s2 == sm.s
         IN IF s2.sinceLastMessage >= s2.world.timestepMs
            THEN [postMessage(s2, sm.res) EXCEPT !.sinceLastMessage = 0]
            ELSE s2

onmessage(s, msg) ==
    IF "data" \in DOMAIN msg /\ msg.data.token # s.demoToken
    THEN s
    ELSE LET s1 == IF "data" \in DOMAIN msg /\ msg.data.token = s.demoToken
                   THEN setDebugInfos(
                            setTiming(updatePositions(s, msg.data.positions),
                                      msg.data.stepTime),
                            msg.data)
                   ELSE s
             sm == stepMessage(s1)
             s2 == sm.s
         IN IF s2.sinceLastMessage >= s2.world.timestepMs
            THEN [postMessage(s2, sm.res) EXCEPT !.sinceLastMessage = 0]
            ELSE setTimeout(s2, sm.res, s2.sinceLastMessage)

\* The callback given to setTimeout, run for the timer holding message m.
timeoutCallback(s, m) ==
    [postMessage(s, m) EXCEPT !.sinceLastMessage = 0]

\* ------------------------------------------------------------ Testbed.takeSnapshot / restoreSnapshot
takeSnapshot(s) == postMessage(s, [type |-> "takeSnapshot"])

\* restoreSnapshot that opens a new generation.
restoreSnapshot_NewToken(s) ==
    postMessage([s EXCEPT !.demoToken = @ + 1], [type |-> "restoreSnapshot"])

restoreSnapshot(s) == postMessage(s, [type |-> "restoreSnapshot"])

\* ------------------------------------------------------------ Testbed.constructor
\* The state before the constructor's call of switchToDemo.
Constructed ==
    [backend |-> SimulationParameters.backend,
     prevBackend |-> SimulationParameters.prevBackend,
     demo |-> SimulationParameters.demo,
     numVelocityIter |-> SimulationParameters.numVelocityIter,
     numPositionIter |-> SimulationParameters.numPositionIter,
     running |-> SimulationParameters.running,
     stepping |-> SimulationParameters.stepping,
     demoToken |-> 0, prevDemo |-> NoDemo, world |-> NoWorld,
     sinceLastMessage |-> TimestepMs,
     coll2gfx |-> EmptyMap, timing |-> 0, debugInfos |-> 0,
     velIterEnabled |-> TRUE, posIterEnabled |-> TRUE,
     timers |-> <<>>, inhibitLookAt |-> FALSE, calls |-> <<>>]

\* builders.keys().next().value: the first key of the Map of builders.
FirstDemo == "cubes"

\* A constructor that starts the step loop without building a world.
constructor_StepOnly ==
    [postMessage(Constructed, stepMessage(Constructed).res)
        EXCEPT !.sinceLastMessage = 0]

constructor == switchToDemo(Constructed, FirstDemo)

\* ------------------------------------------------------------ the worker
\* The worker keeps the world of the last setWorld message and answers every
\* step message with one result for that world.  A position or a step time
\* is written as the token of the world it was computed in.
NoWorkerWorld ==
    [token |-> 0, backend |-> "none", handles |-> <<>>, failed |-> FALSE,
     unanswered |-> FALSE]

WorkerResult(w) ==
    [data |-> [token |-> w.token,
               positions |-> [i \in DOMAIN w.handles |->
                                [handle |-> w.handles[i],
                                 translation |-> w.token]],
               stepTime |-> w.token]]

WorkerSetWorld(m) ==
    [token |-> m.token, backend |-> m.backend,
     handles |-> [i \in DOMAIN m.colliders |-> m.colliders[i].handle],
     failed |-> FALSE, unanswered |-> FALSE]

\* ------------------------------------------------------------ the state machine
\* The messages a handler posted, in order.
RECURSIVE Posts(_)
Posts(cs) ==
    IF cs = <<>> THEN <<>>
    ELSE (IF Head(cs).op = "postMessage" THEN <<Head(cs).msg>> ELSE <<>>)
         \o Posts(Tail(cs))

SetWorldTokens(ms) ==
    {ms[i].token : i \in {j \in DOMAIN ms : ms[j].type = "setWorld"}}

RunningSteps(ms) ==
    Cardinality({i \in DOMAIN ms : ms[i].type = "step" /\ ms[i].running})

\* advancesSinceStep: the number (2 for two or more) of step messages with
\* running = true posted since the user last pressed "step" while the session
\* was paused, and -1 if the user has not, or has ticked or unticked
\* "running" since.
StepEpisode(h, ms) ==
    IF h.name = "RequestStep"
    THEN (IF running THEN -1 ELSE 0)
    ELSE IF h.name = "ToggleRunning" \/ advancesSinceStep = -1
    THEN -1
    ELSE Min(advancesSinceStep + RunningSteps(ms), 2)

\* handler names the handler that ran last, with its argument, when that is
\* the constructor, a switch, a snapshot request or the receipt of a result.
NoHandler == [name |-> "none", arg |-> 0]

Recorded(h) ==
    IF h.name \in {"switchToDemo", "switchToBackend", "onmessage",
                   "takeSnapshot", "restoreSnapshot"}
    THEN h ELSE NoHandler

\* Handler h leaves the foreground in state s.
Commit(s, h) ==
    /\ backend' = s.backend
    /\ prevBackend' = s.prevBackend
    /\ demo' = s.demo
    /\ numVelocityIter' = s.numVelocityIter
    /\ numPositionIter' = s.numPositionIter
    /\ running' = s.running
    /\ stepping' = s.stepping
    /\ demoToken' = s.demoToken
    /\ prevDemo' = s.prevDemo
    /\ world' = s.world
    /\ sinceLastMessage' = s.sinceLastMessage
    /\ coll2gfx' = s.coll2gfx
    /\ timing' = s.timing
    /\ debugInfos' = s.debugInfos
    /\ velIterEnabled' = s.velIterEnabled
    /\ posIterEnabled' = s.posIterEnabled
    /\ timers' = s.timers
    /\ calls' = s.calls
    /\ toWorker' = toWorker \o Posts(s.calls)
    /\ sentTokens' = sentTokens \cup SetWorldTokens(Posts(s.calls))
    /\ firstPosted' = firstPosted
    /\ handler' = Recorded(h)
    /\ advancesSinceStep' = StepEpisode(h, Posts(s.calls))

Init ==
    /\ backend = constructor.backend
    /\ prevBackend = constructor.prevBackend
    /\ demo = constructor.demo
    /\ numVelocityIter = constructor.numVelocityIter
    /\ numPositionIter = constructor.numPositionIter
    /\ running = constructor.running
    /\ stepping = constructor.stepping
    /\ demoToken = constructor.demoToken
    /\ prevDemo = constructor.prevDemo
    /\ world = constructor.world
    /\ sinceLastMessage = constructor.sinceLastMessage
    /\ coll2gfx = constructor.coll2gfx
    /\ timing = constructor.timing
    /\ debugInfos = constructor.debugInfos
    /\ velIterEnabled = constructor.velIterEnabled
    /\ posIterEnabled = constructor.posIterEnabled
    /\ timers = constructor.timers
    /\ calls = constructor.calls
    /\ handler = [name |-> "constructor", arg |-> FirstDemo]
    /\ advancesSinceStep = -1
    /\ toWorker = Posts(constructor.calls)
    /\ toMain = <<>>
    /\ wk = NoWorkerWorld
    /\ firstPosted = Posts(constructor.calls)[1].type
    /\ sentTokens = SetWorldTokens(Posts(constructor.calls))

\* The user picks a demo in the GUI: parameters.demo is set, then switchToDemo.
SwitchToDemo(d) ==
    /\ demoToken < MaxToken
    /\ \E s \in {switchToDemo([Fg EXCEPT !.demo = d], d)} :
          Commit(s, [name |-> "switchToDemo", arg |-> d])
    /\ UNCHANGED <<toMain, wk>>

\* The user picks a backend: parameters.backend is set, then switchToBackend.
SwitchToBackend(b) ==
    /\ demoToken < MaxToken
    /\ \E s \in {switchToBackend([Fg EXCEPT !.backend = b], b)} :
          Commit(s, [name |-> "switchToBackend", arg |-> b])
    /\ UNCHANGED <<toMain, wk>>

\* The user ticks or unticks "running".
ToggleRunning ==
    /\ \E s \in {[Fg EXCEPT !.running = ~@]} :
          Commit(s, [name |-> "ToggleRunning", arg |-> 0])
    /\ UNCHANGED <<toMain, wk>>

\* The user presses "step": parameters.stepping is set.
RequestStep ==
    /\ \E s \in {[Fg EXCEPT !.stepping = TRUE]} :
          Commit(s, [name |-> "RequestStep", arg |-> 0])
    /\ UNCHANGED <<toMain, wk>>

\* The user presses a snapshot button while the channel to the worker is
\* empty (the worker has taken up everything it was sent).
TakeSnapshot ==
    /\ toWorker = <<>>
    /\ \E s \in {takeSnapshot(Fg)} :
          Commit(s, [name |-> "takeSnapshot", arg |-> 0])
    /\ UNCHANGED <<toMain, wk>>

RestoreSnapshot ==
    /\ toWorker = <<>>
    /\ \E s \in {restoreSnapshot(Fg)} :
          Commit(s, [name |-> "restoreSnapshot", arg |-> 0])
    /\ UNCHANGED <<toMain, wk>>

\* A result reaches the foreground: worker.onmessage runs on it.
OnMessage ==
    /\ toMain # <<>>
    /\ \E s \in {onmessage(Fg, Head(toMain))} :
          Commit(s, [name |-> "onmessage",
                     arg |-> Head(toMain).data.token])
    /\ toMain' = Tail(toMain)
    /\ UNCHANGED wk

RemoveAt(q, i) == [j \in 1..(Len(q) - 1) |-> IF j < i THEN q[j] ELSE q[j + 1]]

\* A timer whose delay has passed runs its callback.
TimerFire(i) ==
    /\ timers[i].left = 0
    /\ \E s \in {timeoutCallback([Fg EXCEPT !.timers = RemoveAt(@, i)],
                                 timers[i].msg)} :
          Commit(s, [name |-> "timeout", arg |-> 0])
    /\ UNCHANGED <<toMain, wk>>

\* One clock unit passes.
Tick ==
    /\ sinceLastMessage' = Min(sinceLastMessage + 1, TimestepMs)
    /\ timers' = [i \in DOMAIN timers |->
                    [timers[i] EXCEPT !.left = IF @ > 0 THEN @ - 1 ELSE 0]]
    /\ calls' = <<>>
    /\ handler' = NoHandler
    /\ UNCHANGED <<backend, prevBackend, demo, numVelocityIter,
                   numPositionIter, running, stepping, demoToken, prevDemo,
                   world, coll2gfx, timing, debugInfos, velIterEnabled,
                   posIterEnabled, toWorker, toMain, wk, firstPosted,
                   sentTokens, advancesSinceStep>>

\* The worker processes the next message of the channel.
WorkerProcess ==
    /\ toWorker # <<>>
    /\ LET m == Head(toWorker) IN
        /\ toWorker' = Tail(toWorker)
        /\ wk' = IF m.type = "setWorld" THEN WorkerSetWorld(m)
                 ELSE IF m.type = "step" /\ wk.token = 0
                      THEN [wk EXCEPT !.failed = TRUE]
                      ELSE wk
        /\ toMain' = IF m.type = "step" /\ wk.token # 0
                     THEN Append(toMain, WorkerResult(wk))
                     ELSE toMain
    /\ calls' = <<>>
    /\ handler' = NoHandler
    /\ UNCHANGED <<fgVars, firstPosted, sentTokens, advancesSinceStep>>

Next ==
    \/ \E d \in Demos : SwitchToDemo(d)
    \/ \E b \in Backends : SwitchToBackend(b)
    \/ ToggleRunning
    \/ RequestStep
    \/ TakeSnapshot
    \/ RestoreSnapshot
    \/ OnMessage
    \/ \E i \in DOMAIN timers : TimerFire(i)
    \/ Tick
    \/ WorkerProcess

Spec == Init /\ [][Next]_vars

\* The worker processes every message it is sent and the browser runs the
\* message handler on every result that is queued.  Nothing is assumed of
\* the clock, the timers and the user.
FairSpec ==
    /\ Spec
    /\ WF_vars(WorkerProcess)
    /\ WF_vars(OnMessage)

\* The worker takes a step message and sends no result for it (the backend
\* threw, or never returned): wk.unanswered says that a step of the worker's
\* current world was left without a result.
WorkerDrop ==
    /\ toWorker # <<>>
    /\ Head(toWorker).type = "step"
    /\ wk.token # 0
    /\ toWorker' = Tail(toWorker)
    /\ wk' = [wk EXCEPT !.unanswered = TRUE]
    /\ calls' = <<>>
    /\ handler' = NoHandler
    /\ UNCHANGED <<fgVars, toMain, firstPosted, sentTokens, advancesSinceStep>>

\* The user drags the slider of the velocity iterations; a slider whose
\* pointerEvents is "none" cannot be dragged.
SetVelocityIter(v) ==
    /\ velIterEnabled
    /\ v # numVelocityIter
    /\ \E s \in {[Fg EXCEPT !.numVelocityIter = v]} :
          Commit(s, [name |-> "SetVelocityIter", arg |-> v])
    /\ UNCHANGED <<toMain, wk>>

\* The user drags the slider of the position iterations.
SetPositionIter(v) ==
    /\ posIterEnabled
    /\ v # numPositionIter
    /\ \E s \in {[Fg EXCEPT !.numPositionIter = v]} :
          Commit(s, [name |-> "SetPositionIter", arg |-> v])
    /\ UNCHANGED <<toMain, wk>>

\* A running session in which the user works the selectors of demo and
\* backend and the two sliders, and leaves the running checkbox, the step
\* button and the snapshot buttons alone.
NextSliders ==
    \/ \E d \in Demos : SwitchToDemo(d)
    \/ \E b \in Backends : SwitchToBackend(b)
    \/ \E v \in IterValues : SetVelocityIter(v)
    \/ \E v \in IterValues : SetPositionIter(v)
    \/ OnMessage
    \/ \E i \in DOMAIN timers : TimerFire(i)
    \/ Tick
    \/ WorkerProcess

SliderSpec == Init /\ [][NextSliders]_vars

\* The user picks a backend, as in SwitchToBackend, in a session that goes
\* on for MaxBackendToken generations.
SelectBackend(b) ==
    /\ demoToken < MaxBackendToken
    /\ \E s \in {switchToBackend([Fg EXCEPT !.backend = b], b)} :
          Commit(s, [name |-> "switchToBackend", arg |-> b])
    /\ UNCHANGED <<toMain, wk>>

\* A running session in which the user goes from backend to backend, works
\* the two sliders, and may pick a demo in the first MaxToken generations.
NextBackends ==
    \/ \E b \in Backends : SelectBackend(b)
    \/ \E d \in Demos : SwitchToDemo(d)
    \/ \E v \in IterValues : SetVelocityIter(v)
    \/ \E v \in IterValues : SetPositionIter(v)
    \/ OnMessage
    \/ \E i \in DOMAIN timers : TimerFire(i)
    \/ Tick
    \/ WorkerProcess

BackendSpec == Init /\ [][NextBackends]_vars

NextStall ==
    \/ Next
    \/ WorkerDrop

\* The testbed with a worker that may leave steps unanswered; what it does
\* process, it processes, and every result queued is handled.
StallSpec ==
    /\ Init
    /\ [][NextStall]_vars
    /\ WF_vars(WorkerProcess)
    /\ WF_vars(OnMessage)

\* ------------------------------------------------------------ what a step did
\* The step from the unprimed to the primed state is the receipt of a result.
Receipt == toMain # <<>> /\ toMain' = Tail(toMain)

ReceivedToken == Head(toMain).data.token

HasCall(cs, op) == \E i \in DOMAIN cs : cs[i].op = op

CountCalls(cs, op) == Cardinality({i \in DOMAIN cs : cs[i].op = op})

PresentationCalls ==
    {"graphics.updatePositions", "gui.setTiming", "gui.setDebugInfos"}

StepPosts(cs) ==
    {i \in DOMAIN cs : cs[i].op = "postMessage" /\ cs[i].msg.type = "step"}

SetWorldPosts(cs) ==
    {i \in DOMAIN cs : cs[i].op = "postMessage" /\ cs[i].msg.type = "setWorld"}

\* The last handler was the receipt of a result that was discarded.
StaleDiscarded(k) ==
    handler = [name |-> "onmessage", arg |-> k] /\ k # demoToken

\* The last handler was the receipt of a result that was shown.
Accepted(k) ==
    /\ handler = [name |-> "onmessage", arg |-> k]
    /\ HasCall(calls, "graphics.updatePositions")

\* ------------------------------------------------------------ C1
\* C1: the receipt of a result whose token differs from demoToken changes
\* nothing of what is presented: the shapes' positions, the timing panel and
\* the debug panel keep their values and none of updatePositions, setTiming,
\* setDebugInfos is called.
C1_StaleNeverPresented ==
    [][(Receipt /\ ReceivedToken # demoToken) =>
          /\ coll2gfx' = coll2gfx
          /\ timing' = timing
          /\ debugInfos' = debugInfos
          /\ \A i \in DOMAIN calls' : calls'[i].op \notin PresentationCalls]_vars

\* A result of generation 1 was discarded while the shapes of generation 2,
\* which reuse its handles, are on screen.
C1_Witness ==
    /\ StaleDiscarded(1)
    /\ demoToken = 2
    /\ DOMAIN coll2gfx # {}
    /\ \A h \in DOMAIN coll2gfx : coll2gfx[h] = 0

\* ------------------------------------------------------------ C2
\* C2: a result of generation k that arrives when generation k + 1 is current
\* is discarded, every result shown belongs to the current generation, and
\* after the discard a result of generation k + 1 is eventually shown, unless
\* the user switches again first.
C2_DemoSwitchRace ==
    /\ [][Receipt /\ HasCall(calls', "graphics.updatePositions")
            => ReceivedToken = demoToken']_vars
    /\ \A k \in 1..(MaxToken - 1) :
          (StaleDiscarded(k) /\ demoToken = k + 1)
              ~> (Accepted(k + 1) \/ demoToken > k + 1)

\* The result of generation 2 is shown after a result of generation 1 was
\* discarded: nothing of generation 1 is left in either direction.
C2_Witness ==
    /\ Accepted(2)
    /\ demoToken = 2
    /\ wk.token = 2
    /\ \A i \in DOMAIN toMain : toMain[i].data.token = 2

\* ------------------------------------------------------------ C3
\* C3: demoToken never decreases; a step changes it exactly when it posts a
\* setWorld message, by one per message and at most once; the token of a
\* setWorld message was never sent before; receipts, step dispatches,
\* takeSnapshot and restoreSnapshot leave it alone.
C3_TokenMonotonic ==
    [][/\ demoToken' = demoToken + Cardinality(SetWorldPosts(calls'))
       /\ Cardinality(SetWorldPosts(calls')) <= 1
       /\ \A i \in SetWorldPosts(calls') :
             /\ calls'[i].msg.token = demoToken'
             /\ calls'[i].msg.token \notin sentTokens
       /\ handler'.name \notin {"switchToDemo", "switchToBackend"}
             => demoToken' = demoToken]_vars

\* Two worlds have been set, with tokens 1 and 2, and a snapshot message has
\* been posted since.
C3_Witness ==
    /\ demoToken = 2
    /\ sentTokens = {1, 2}
    /\ HasCall(calls, "postMessage")
    /\ \E i \in DOMAIN calls : calls[i].op = "postMessage"
                               /\ calls[i].msg.type = "restoreSnapshot"

\* ------------------------------------------------------------ C4
\* C4: every step message leaves at least TimestepMs after the step message
\* before it, whether it is posted by the message handler, by a timer or by
\* setWorld.
C4_RateLimited ==
    \A i \in StepPosts(calls) : calls[i].at >= TimestepMs

\* ------------------------------------------------------------ C5
\* C5: at most one deferred dispatch is pending.
C5_OneTimerPending == Len(timers) <= 1

\* ------------------------------------------------------------ C6
SetTimeouts(cs) == {i \in DOMAIN cs : cs[i].op = "setTimeout"}

\* C6 as claimed: the receipt of any result, stale or fresh, posts or
\* schedules the next step message.
C6_AnyReceiptPaces ==
    [][Receipt => (StepPosts(calls') # {} \/ SetTimeouts(calls') # {})]_vars

\* C6 as amended: the receipt of a result of the current token posts or
\* schedules the next step message; the receipt of a result of another
\* token posts nothing, schedules nothing and calls nothing.
C6_FreshReceiptPaces ==
    [][Receipt =>
          IF ReceivedToken = demoToken
          THEN \/ StepPosts(calls') # {} /\ toWorker' # toWorker
               \/ SetTimeouts(calls') # {} /\ Len(timers') = Len(timers) + 1
          ELSE calls' = <<>> /\ timers' = timers /\ toWorker' = toWorker]_vars

\* A result of generation 1 was discarded and nothing is on its way to the
\* worker, only the step loop of generation 2 is left.
C6_Witness ==
    /\ StaleDiscarded(1)
    /\ calls = <<>>
    /\ timers = <<>>
    /\ toWorker = <<>>
    /\ toMain # <<>>

\* ------------------------------------------------------------ C7
\* C7: the message handler posts the step message at once, and restarts the
\* measure of elapsed time, when at least TimestepMs have elapsed since the
\* last dispatch; otherwise it sets a timer of TimestepMs minus the elapsed
\* time.
C7_PacingComputation ==
    handler.name = "onmessage" =>
        /\ \A i \in StepPosts(calls) :
              calls[i].at >= TimestepMs /\ sinceLastMessage = 0
        /\ \A i \in SetTimeouts(calls) :
              /\ calls[i].at < TimestepMs
              /\ calls[i].delay = TimestepMs - calls[i].at

\* ------------------------------------------------------------ C8
\* The step messages the step from the unprimed to the primed state built
\* (a timer callback posts a message built before).
BuiltSteps ==
    IF Len(timers') < Len(timers) THEN {}
    ELSE {calls'[i].msg : i \in StepPosts(calls') \cup SetTimeouts(calls')}

\* C8 as claimed: from a step request made while paused until the user
\* resumes or asks for another step, no more than one step message with
\* running = true is posted.
C8_OneRunningStepDispatched == advancesSinceStep <= 1

\* C8 as amended: a step message built while a step request is pending in a
\* paused session carries running = true and building it leaves the session
\* paused with no request pending; a step message built in a paused session
\* with no request pending carries running = false and leaves it so.
C8_OneRunningStepBuilt ==
    [][\A m \in BuiltSteps :
          /\ (~running /\ stepping) => (m.running /\ ~running' /\ ~stepping')
          /\ (~running /\ ~stepping) => (~m.running /\ ~running' /\ ~stepping')
      ]_vars

\* The one step of a request made while paused has been posted, and the
\* session, paused again, has posted or scheduled a step that is a mere poll.
C8_Witness ==
    /\ advancesSinceStep = 1
    /\ ~running /\ ~stepping
    /\ \E i \in StepPosts(calls) \cup SetTimeouts(calls) : ~calls[i].msg.running

\* ------------------------------------------------------------ C9
\* C9: the first message ever posted is a setWorld; the worker never has to
\* process a step without a world; while the worker has no world, every step
\* message in the channel has a setWorld message before it.
C9_SetWorldFirst ==
    /\ firstPosted = "setWorld"
    /\ ~wk.failed
    /\ wk.token = 0 =>
          \A i \in DOMAIN toWorker :
              toWorker[i].type = "step" =>
                  \E j \in 1..(i - 1) : toWorker[j].type = "setWorld"

\* The worker has answered the first step, in the world of the constructor.
C9_Witness ==
    /\ wk.token = 1
    /\ toMain # <<>>
    /\ Head(toMain).data.token = 1
    /\ demoToken = 1

\* ------------------------------------------------------------ C10
Building == handler'.name \in {"switchToDemo", "switchToBackend"}

IndexOf(cs, op) == CHOOSE i \in DOMAIN cs : cs[i].op = op

\* C10: a switch of demo or backend calls graphics.reset once, the builder of
\* the selected demo once and gui.resetTiming once, adds one to demoToken and
\* posts one setWorld message, with the new token and the selected backend;
\* graphics.reset comes before every addCollider and before the setWorld
\* message, so that the shapes on screen are those of the new world.
C10_BuildingTransition ==
    [][Building =>
        /\ CountCalls(calls', "graphics.reset") = 1
        /\ CountCalls(calls', "builder") = 1
        /\ calls'[IndexOf(calls', "builder")].demo = demo'
        /\ CountCalls(calls', "gui.resetTiming") = 1
        /\ timing' = 0
        /\ demoToken' = demoToken + 1
        /\ Cardinality(SetWorldPosts(calls')) = 1
        /\ \A i \in SetWorldPosts(calls') :
              /\ calls'[i].msg.token = demoToken'
              /\ calls'[i].msg.backend = backend'
              /\ IndexOf(calls', "graphics.reset") < i
              /\ DOMAIN coll2gfx' =
                    {calls'[i].msg.colliders[j].handle :
                        j \in DOMAIN calls'[i].msg.colliders}
        /\ \A i \in DOMAIN calls' :
              calls'[i].op = "graphics.addCollider" =>
                  IndexOf(calls', "graphics.reset") < i]_vars

\* The user has switched from the cubes on rapier to the cubes on PhysX: the
\* shapes are those of the new world and the token is 2.
C10_Witness ==
    /\ handler = [name |-> "switchToBackend", arg |-> PHYSX_BACKEND_NAME]
    /\ demoToken = 2
    /\ demo = "cubes"
    /\ backend = PHYSX_BACKEND_NAME
    /\ Cardinality(DOMAIN coll2gfx) = CubesNum + 1
    /\ Len(toWorker) >= 2

\* ------------------------------------------------------------ C11
\* The last handler was a switch of demo or backend.
Built == handler.name \in {"switchToDemo", "switchToBackend"}

\* C11 as claimed: after a switch of demo or backend the session is running
\* and the first step message of the new world carries running = true,
\* whatever the session was before the switch.
C11_BuildingEndsRunning ==
    Built => /\ running
             /\ \A i \in StepPosts(calls) : calls[i].msg.running

\* C11 as amended: a switch of demo or backend always posts, right after its
\* setWorld message, one step message, which starts the step loop of the new
\* world; the switch carries the run mode over: that step message has
\* running = true exactly when the session was running or a step request was
\* pending before the switch, a pending request is used up by it (and leaves
\* the session paused), and otherwise "running" is as it was.
C11_BuildingKeepsRunMode ==
    [][Building =>
        /\ Cardinality(StepPosts(calls')) = 1
        /\ \A i \in StepPosts(calls') :
              /\ calls'[i].msg.running = (running \/ stepping)
              /\ \A j \in SetWorldPosts(calls') : i = j + 1
        /\ running' = (running /\ ~stepping)
        /\ ~stepping']_vars

\* The user has switched demo in a paused session: the session is still
\* paused and the first step message of the new world is a poll.
C11_Witness ==
    /\ Built
    /\ demoToken = 2
    /\ ~running /\ ~stepping
    /\ \E i \in StepPosts(calls) : ~calls[i].msg.running

\* ------------------------------------------------------------ C12
\* No step message, result or timer is left: the step loop has stopped.
Stalled == toWorker = <<>> /\ toMain = <<>> /\ timers = <<>>

\* C12: a switch of demo or backend posts a setWorld message and one step
\* message and nothing else, whatever is outstanding or lost of the worlds
\* before; after a switch to generation k a result of generation k is
\* eventually shown, unless the user switches again or the worker leaves a
\* step of generation k unanswered.
C12_ReentrantBuildingRecovers ==
    /\ [][Building =>
            /\ Len(Posts(calls')) = 2
            /\ Posts(calls')[1].type = "setWorld"
            /\ Posts(calls')[2].type = "step"
            /\ toWorker' = toWorker \o Posts(calls')
            /\ toMain' = toMain]_vars
    /\ \A k \in 2..MaxToken :
          (Built /\ demoToken = k)
              ~> \/ Accepted(k)
                 \/ demoToken > k
                 \/ wk.token = k /\ wk.unanswered

\* The worker left the only step of generation 1 unanswered, the loop
\* stopped, and the user has now switched: the setWorld and step messages of
\* generation 2 are all there is.
C12_Witness ==
    /\ Built
    /\ demoToken = 2
    /\ wk.token = 1 /\ wk.unanswered
    /\ Len(toWorker) = 2
    /\ toMain = <<>>
    /\ timers = <<>>

\* ------------------------------------------------------------ C13
\* The iteration counts switchToDemo assigns: 1 and 4 for PhysX, 4 and 1
\* when PhysX is left, which are also the counts the session starts with.
ForcedVelocityIter(b) == IF b = PHYSX_BACKEND_NAME THEN 1 ELSE 4

ForcedPositionIter(b) == IF b = PHYSX_BACKEND_NAME THEN 4 ELSE 1

\* C13: after every switch of demo or backend, a slider that is disabled
\* shows the count that goes with the backend, whatever the user had set
\* before the switch.
C13_DisabledControlsForced ==
    Built =>
        /\ ~velIterEnabled => numVelocityIter = ForcedVelocityIter(backend)
        /\ ~posIterEnabled => numPositionIter = ForcedPositionIter(backend)

\* The position slider is disabled on a backend other than PhysX and shows
\* what the user had set on rapier.
C13_UserValueKept ==
    /\ Built
    /\ backend = "ammo.js"
    /\ ~posIterEnabled
    /\ numPositionIter = MaxIter

\* The same switch when the user had left the slider alone.
C13_DefaultValueKept ==
    /\ Built
    /\ backend = "ammo.js"
    /\ ~posIterEnabled
    /\ numPositionIter = 1

\* ------------------------------------------------------------ C14
SnapshotRequest == handler'.name \in {"takeSnapshot", "restoreSnapshot"}

\* The worker takes a snapshot message from the channel.
SnapshotProcessed ==
    /\ toWorker # <<>>
    /\ toWorker' = Tail(toWorker)
    /\ Head(toWorker).type \in {"takeSnapshot", "restoreSnapshot"}

\* C14: takeSnapshot and restoreSnapshot post one message, which has a type
\* (that of the request) and nothing else, and change nothing of the
\* foreground: token, running and stepping flags, iteration counts, time of
\* the last dispatch, pending timers, what is on screen.  The worker keeps
\* its world and its token over a snapshot message and sends no result for
\* it, and a result of the current token is shown, whether or not a snapshot
\* was restored since.
C14_SnapshotFrame ==
    [][/\ SnapshotRequest =>
            /\ Len(calls') = 1
            /\ Posts(calls') = <<[type |-> handler'.name]>>
            /\ toWorker' = Append(toWorker, [type |-> handler'.name])
            /\ UNCHANGED <<fgVars, toMain, wk>>
       /\ SnapshotProcessed => UNCHANGED <<fgVars, toMain, wk>>
       /\ (Receipt /\ ReceivedToken = demoToken) =>
            /\ HasCall(calls', "graphics.updatePositions")
            /\ timing' = ReceivedToken]_vars

\* The user has asked for a restore in generation 2, in a paused session,
\* with a deferred step pending and a result on its way.
C14_Witness ==
    /\ handler.name = "restoreSnapshot"
    /\ demoToken = 2
    /\ ~running
    /\ timers # <<>>
    /\ toMain # <<>>
    /\ toWorker = <<[type |-> "restoreSnapshot"]>>

\* ------------------------------------------------------------ C15
\* Every body handle a collider or a joint of d refers to is the handle of a
\* body of d.
SelfContained(d) ==
    LET hs == {d.bodies[i].handle : i \in DOMAIN d.bodies}
    IN /\ \A i \in DOMAIN d.colliders : d.colliders[i].parentHandle \in hs
       /\ \A i \in DOMAIN d.joints :
             d.joints[i].handle1 \in hs /\ d.joints[i].handle2 \in hs

\* Inputs of the encoder: lists of at most MaxInputLen bodies and colliders
\* and at most one joint, over the handles 0..MaxInputLen.
SeqsUpTo(S, n) == UNION {[1..k -> S] : k \in 0..n}

InputBodies ==
    {[i \in DOMAIN hs |-> [handle |-> hs[i], type |-> "dynamic"]] :
        hs \in SeqsUpTo(0..MaxInputLen, MaxInputLen)}

InputColliders ==
    {[i \in DOMAIN ps |->
         [handle |-> i - 1, parentHandle |-> ps[i], type |-> "Cuboid"]] :
        ps \in SeqsUpTo(0..MaxInputLen, MaxInputLen)}

InputJoints ==
    {[i \in DOMAIN js |-> [handle1 |-> js[i][1], handle2 |-> js[i][2]]] :
        js \in SeqsUpTo((0..MaxInputLen) \X (0..MaxInputLen), 1)}

\* The encoder keeps every reference: its description is self-contained
\* exactly when the lists it was given are.
EncoderKeepsReferences ==
    \A bs \in InputBodies, cs \in InputColliders, js \in InputJoints :
        SelfContained(extractWorldDescription(NewWorld("cubes"), bs, cs, js))
            <=> SelfContained([bodies |-> bs, colliders |-> cs, joints |-> js])

SetWorldMessages ==
    {toWorker[i] : i \in {j \in DOMAIN toWorker :
                              toWorker[j].type = "setWorld"}}
    \cup {calls[i].msg : i \in SetWorldPosts(calls)}

C16_GravityEncoded ==
    \A m \in SetWorldMessages :
        m.token = demoToken =>
            /\ "gravity" \in DOMAIN m.world
            /\ m.world.gravity = world.gravity
            /\ m.world.maxVelocityIterations = world.maxVelocityIterations
            /\ m.world.maxPositionIterations = world.maxPositionIterations

\* What the code does encode: the two iteration counts, and nothing else.
C16_IterationsOnly ==
    \A m \in SetWorldMessages :
        m.token = demoToken =>
            /\ DOMAIN m.world =
                  {"maxVelocityIterations", "maxPositionIterations"}
            /\ m.world.maxVelocityIterations = world.maxVelocityIterations
            /\ m.world.maxPositionIterations = world.maxPositionIterations

\* ------------------------------------------------------------ C17
\* The step from the unprimed to the primed state is timer i running its
\* callback.
Fired(i) ==
    /\ i \in DOMAIN timers
    /\ timers' = RemoveAt(timers, i)

\* C17: the receipt of a result of the current token either posts one step
\* message and sets no timer, or posts nothing and sets one timer, which
\* holds the step message; a timer stays pending until it fires, and when
\* it fires it posts the message it holds, and only that.
C17_OneStepPerAcceptedResult ==
    [][/\ (Receipt /\ ReceivedToken = demoToken) =>
            \/ /\ Cardinality(StepPosts(calls')) = 1
               /\ SetTimeouts(calls') = {}
               /\ Len(Posts(calls')) = 1
               /\ toWorker' = toWorker \o Posts(calls')
               /\ timers' = timers
            \/ /\ Cardinality(SetTimeouts(calls')) = 1
               /\ Posts(calls') = <<>>
               /\ toWorker' = toWorker
               /\ \E i \in SetTimeouts(calls') :
                     /\ calls'[i].msg.type = "step"
                     /\ timers' = Append(timers,
                                         [left |-> calls'[i].delay,
                                          msg |-> calls'[i].msg])
       /\ Len(timers') < Len(timers) =>
            \E i \in DOMAIN timers :
                /\ Fired(i)
                /\ timers[i].left = 0
                /\ toWorker' = Append(toWorker, timers[i].msg)
                /\ Posts(calls') = <<timers[i].msg>>]_vars

\* A result of generation 2 was shown too early for its step message to be
\* posted: the message is held by the one timer pending.
C17_Witness ==
    /\ Accepted(2)
    /\ Len(timers) = 1
    /\ \E i \in SetTimeouts(calls) : timers[1].msg = calls[i].msg
    /\ StepPosts(calls) = {}

\* ------------------------------------------------------------ C18
\* The worker takes a message of type t from the channel.
Processed(t) ==
    /\ toWorker # <<>>
    /\ toWorker' = Tail(toWorker)
    /\ Head(toWorker).type = t

\* C18: a switch posts its setWorld message and a step message right after
\* it, nothing before, between or after, and takes that moment as the time
\* of the last dispatch.  In the channel a setWorld message is always
\* followed by a step message, so that the first step the worker processes
\* after the setWorld of a generation is answered with a result of that
\* generation.
C18_ImplicitFirstStep ==
    /\ [](\A i \in DOMAIN toWorker :
            toWorker[i].type = "setWorld" =>
                i + 1 \in DOMAIN toWorker /\ toWorker[i + 1].type = "step")
    /\ [][/\ Building =>
               /\ Len(Posts(calls')) = 2
               /\ Posts(calls')[1].type = "setWorld"
               /\ Posts(calls')[1].token = demoToken'
               /\ Posts(calls')[2].type = "step"
               /\ toWorker' = toWorker \o Posts(calls')
               /\ sinceLastMessage' = 0
          /\ Processed("setWorld") =>
               /\ wk'.token = Head(toWorker).token
               /\ toMain' = toMain
               /\ Head(toWorker').type = "step"
          /\ Processed("step") =>
               /\ toMain' = Append(toMain, WorkerResult(wk))
               /\ toMain'[Len(toMain')].data.token = wk.token
          /\ wk' # wk => Processed("setWorld")]_vars

\* The worker has answered the first step of generation 2 with a result of
\* generation 2; no result of generation 2 has been shown yet.
C18_Witness ==
    /\ demoToken = 2
    /\ wk.token = 2
    /\ toWorker = <<>>
    /\ toMain = <<WorkerResult(wk)>>
    /\ timing = 0

\* ------------------------------------------------------------ C19
\* C19: the receipt of a result of the current token in a paused session
\* with no step request pending builds one step message, posted or held by
\* a timer, with running = false, and leaves the session paused; whatever
\* the handler, a step message is built with running = true exactly when
\* the session is running or a step request is pending at that moment.
C19_PausedLoopPolls ==
    [][/\ \A m \in BuiltSteps : m.running = (running \/ stepping)
       /\ (Receipt /\ ReceivedToken = demoToken /\ ~running /\ ~stepping) =>
            /\ Cardinality(StepPosts(calls') \cup SetTimeouts(calls')) = 1
            /\ \A m \in BuiltSteps : ~m.running
            /\ BuiltSteps # {}
            /\ ~running' /\ ~stepping']_vars

\* A result of generation 2 was shown in a paused session and answered at
\* once with a step message that is a poll; the user never pressed "step".
C19_Witness ==
    /\ Accepted(2)
    /\ ~running /\ ~stepping
    /\ advancesSinceStep = -1
    /\ \E i \in StepPosts(calls) : ~calls[i].msg.running
    /\ toWorker # <<>>

\* ------------------------------------------------------------ C20
\* The step messages of the channel that the worker will process in the
\* world of the current generation: those behind the setWorld message of
\* demoToken, or all of them once the worker has that world.
CurrentSteps ==
    {i \in DOMAIN toWorker :
        /\ toWorker[i].type = "step"
        /\ \/ \E j \in 1..(i - 1) :
                 toWorker[j].type = "setWorld" /\ toWorker[j].token = demoToken
           \/ /\ wk.token = demoToken
              /\ \A j \in DOMAIN toWorker : toWorker[j].type # "setWorld"}

CurrentResults == {i \in DOMAIN toMain : toMain[i].data.token = demoToken}

\* The step requests outstanding for the current generation.
Outstanding ==
    Cardinality(CurrentSteps) + Cardinality(CurrentResults) + Len(timers)

\* C20: at most one step request is outstanding for the current generation:
\* step messages the worker has yet to process in its world, results of its
\* token yet to be received, and pending timers.
C20_OneOutstandingStep == Outstanding <= 1

\* Two step requests of generation 2 are with the worker or on their way
\* back, and no timer is pending: two step loops run for one world.
C20_TwoLoops ==
    /\ demoToken = 2
    /\ timers = <<>>
    /\ Cardinality(CurrentSteps) + Cardinality(CurrentResults) = 2

\* ------------------------------------------------------------ C21
\* C21: after every switch of demo or backend the velocity slider is
\* disabled exactly when the backend is PhysX, the position slider is
\* enabled exactly when the backend is rapier, and prevBackend is the
\* backend; a switch that enters PhysX sets the iteration counts to 1 and 4,
\* a switch that leaves PhysX sets them to 4 and 1, and every other switch
\* leaves them as they were.
C21_BackendTransition ==
    [][Building =>
        /\ velIterEnabled' = (backend' # PHYSX_BACKEND_NAME)
        /\ posIterEnabled' = (backend' = "rapier")
        /\ prevBackend' = backend'
        /\ <<numVelocityIter', numPositionIter'>> =
              IF backend' = PHYSX_BACKEND_NAME
                 /\ prevBackend # PHYSX_BACKEND_NAME
              THEN <<1, 4>>
              ELSE IF backend' # PHYSX_BACKEND_NAME
                      /\ prevBackend = PHYSX_BACKEND_NAME
              THEN <<4, 1>>
              ELSE <<numVelocityIter, numPositionIter>>]_vars

\* The user has gone from rapier to PhysX and from PhysX to another
\* backend: the worker still has the world of PhysX, the counts are back to
\* 4 and 1 and only the position slider is disabled.
C21_Witness ==
    /\ Built
    /\ demoToken = 3
    /\ wk.token = 2 /\ wk.backend = PHYSX_BACKEND_NAME
    /\ backend = "ammo.js" /\ prevBackend = "ammo.js"
    /\ numVelocityIter = 4 /\ numPositionIter = 1
    /\ velIterEnabled /\ ~posIterEnabled

\* ------------------------------------------------------------ C22
\* The step from the unprimed to the primed state ran no method of the
\* testbed: it is the user's, on the running checkbox or the step button.
UserOnly ==
    /\ calls' = <<>>
    /\ toWorker' = toWorker
    /\ timers' = timers
    /\ demoToken' = demoToken

\* C22: a step request made while the session is running only sets the
\* stepping flag; the next step message built, by whatever handler, carries
\* running = true and building it clears the running and the stepping flag;
\* every step message built in the paused session that follows carries
\* running = false and leaves it paused, and only the user, on the running
\* checkbox or with a new step request, ends that.
C22_StepWhileRunningPauses ==
    [][/\ (running /\ ~stepping /\ stepping') =>
            /\ running'
            /\ UserOnly
       /\ \A m \in BuiltSteps :
            /\ (running /\ stepping) =>
                  (m.running /\ ~running' /\ ~stepping')
            /\ (~running /\ ~stepping) =>
                  (~m.running /\ ~running' /\ ~stepping')
       /\ (~running /\ running') => (UserOnly /\ stepping' = stepping)
       /\ (~stepping /\ stepping') => (UserOnly /\ running' = running)]_vars

\* The message handler has used up a step request in a session that was
\* not paused when the request was made: the step message it built carries
\* running = true and the session is now paused with no request pending.
C22_Witness ==
    /\ handler.name = "onmessage"
    /\ advancesSinceStep = -1
    /\ ~running /\ ~stepping
    /\ \E i \in StepPosts(calls) \cup SetTimeouts(calls) : calls[i].msg.running

====
